---- MODULE Spec2Model ----
(***************************************************************************)
(* Model of colossalai/trainer/hooks/_checkpoint_hook.py:                  *)
(*   SaveCheckpointHook.after_train_epoch and                              *)
(*   LoadCheckpointHook.before_train,                                      *)
(* run by several participants (processes) of one training job.  Every     *)
(* participant runs the same script, so the hooks' constructor arguments   *)
(* are the same on all of them.  Each participant keeps a trace of the     *)
(* calls its hooks make to their collaborators (resolver, os.path.exists,  *)
(* trainer.load, trainer.save, logger, dist.barrier).                      *)
(***************************************************************************)
EXTENDS Integers, Sequences, FiniteSets, TLC

\* ---------------------------------------------------------------- bounds
NumProcs == 2
MaxEpoch == 2
MaxInterval == 2
MaxCkptEpoch == 0

Procs == 0 .. (NumProcs - 1)
Intervals == 1 .. MaxInterval
SaveDirs == {"/out"}
LoadDirs == {"/ckpt"}
Suffixes == {""}
LoadEpochs == (-2) .. MaxCkptEpoch
CkptEpochs == 0 .. MaxCkptEpoch

VARIABLES
    interval,          \* SaveCheckpointHook.interval
    save_dir,          \* SaveCheckpointHook.checkpoint_dir
    suffix,            \* SaveCheckpointHook.suffix
    epoch,             \* LoadCheckpointHook.epoch
    load_dir,          \* LoadCheckpointHook.checkpoint_dir
    finetune,          \* LoadCheckpointHook.finetune
    strict,            \* LoadCheckpointHook.strict
    dist_initialized,  \* value of dist.is_initialized()
    dp_rank,           \* data-parallel rank of each participant, who are
                       \* numbered in the order of their ranks
    latest_epoch,      \* epoch of the newest checkpoint the resolver finds
    pc,                \* position of each participant
    cur_epoch,         \* trainer.cur_epoch of each participant
    arrived,           \* number of dist.barrier() calls each participant made
    stored,            \* checkpoints the save primitive has written
    error,             \* exception that left the hook, per participant
    trace              \* calls made by the hooks, per participant

vars == <<interval, save_dir, suffix, epoch, load_dir, finetune, strict,
          dist_initialized, dp_rank, latest_epoch, pc, cur_epoch, arrived, stored, error,
          trace>>

config == <<interval, save_dir, suffix, epoch, load_dir, finetune, strict,
            dist_initialized, dp_rank, latest_epoch>>

NoError == [type |-> "none", path |-> <<>>]

Event(op, arg) == [op |-> op, at |-> arg]

Log(p, evs) == trace' = [trace EXCEPT ![p] = @ \o evs]

\* ------------------------------------------------------- collaborators

\* colossalai.checkpointing.get_checkpoint_path(checkpoint_dir, epoch)
get_checkpoint_path(dir, e) == [dir |-> dir, epoch |-> e]

\* colossalai.checkpointing.get_latest_checkpoint_path(checkpoint_dir):
\* the path of the newest checkpoint, by the resolver's own convention
get_latest_checkpoint_path(dir) == get_checkpoint_path(dir, latest_epoch)

\* colossalai.utils.is_dp_rank_0()
is_dp_rank_0(p) == dp_rank[p] = 0

\* dist.barrier() returns once every participant has made as many calls
BarrierOpen(p) == \A q \in Procs : arrived[q] >= arrived[p]

\* ------------------------------------------------------ code conditions

\* mutants of line 48: the epoch is counted from one; every epoch is saved
SavePoint_from_one(p) == (cur_epoch[p] + 1) % interval = 0

SavePoint_always(p) == TRUE

\* line 48: self.trainer.cur_epoch % self.interval == 0
SavePoint(p) == cur_epoch[p] % interval = 0

\* mutant of line 50: every participant writes
WriterGate_all(p) == TRUE

\* line 50: if is_dp_rank_0()
WriterGate(p) == is_dp_rank_0(p)

\* mutant of line 56: the barrier is entered without asking dist
SaveBarrierGate_always == TRUE

\* mutant of line 56: the post-save barrier is left out
SaveBarrierGate_never == FALSE

\* line 56: if dist.is_initialized()
SaveBarrierGate == dist_initialized

\* mutant of line 109: the post-load barrier is left out
LoadBarrierGate_never == FALSE

\* line 109: if dist.is_initialized()
LoadBarrierGate == dist_initialized

\* mutant of line 96: every negative epoch means "latest"
WantsLatest_negative == epoch < 0

\* line 96: if self.epoch == -1
WantsLatest == epoch = -1

\* line 51: self.trainer.save(path=self.checkpoint_dir, suffix=self.suffix)
SaveArgs(p) == [path |-> save_dir, suffix |-> suffix, epoch |-> cur_epoch[p]]

\* mutant of lines 101-102: the two flags are passed in each other's place
LoadArgs_swapped(path) == [path |-> path, finetune |-> strict, strict |-> finetune]

\* lines 101-102: self.trainer.load(path, finetune=self.finetune, strict=self.strict)
LoadArgs(path) == [path |-> path, finetune |-> finetune, strict |-> strict]

\* mutant of line 106: the message names the path of the configured epoch
NotFound_configured(path) ==
    [type |-> "FileNotFoundError", path |-> [dir |-> path.dir, epoch |-> epoch]]

\* line 106: FileNotFoundError(f'checkpoint is not found at {path}')
NotFound(path) == [type |-> "FileNotFoundError", path |-> path]

\* the hook returned to the trainer, which advances cur_epoch and runs the
\* next epoch, or stops after the last one
hook_returns(p) ==
    /\ cur_epoch' = [cur_epoch EXCEPT ![p] = @ + 1]
    /\ pc' = [pc EXCEPT ![p] = IF cur_epoch[p] < MaxEpoch THEN "train" ELSE "done"]

\* ---------------------------------------------------------------- Init
Init ==
    /\ interval \in Intervals
    /\ save_dir \in SaveDirs
    /\ suffix \in Suffixes
    /\ epoch \in LoadEpochs
    /\ load_dir \in LoadDirs
    /\ finetune \in BOOLEAN
    /\ strict \in BOOLEAN
    /\ dist_initialized \in BOOLEAN
    /\ dp_rank \in {f \in [Procs -> 0 .. 1] :
                        /\ f[0] = 0
                        /\ \A p, q \in Procs : p <= q => f[p] <= f[q]}
    /\ latest_epoch \in (IF epoch = -1 THEN CkptEpochs ELSE {0})
    /\ pc = [p \in Procs |-> "start"]
    /\ cur_epoch = [p \in Procs |-> 0]
    /\ arrived = [p \in Procs |-> 0]
    /\ stored = {}
    /\ error = [p \in Procs |-> NoError]
    /\ trace = [p \in Procs |-> <<>>]

\* ------------------------------------------- LoadCheckpointHook.before_train

\* mutant of lines 100-106: a missing checkpoint is not raised, and training
\* goes on with the state as initialised
before_train_fallback(p) ==
    /\ pc[p] = "start"
    /\ \E exists \in BOOLEAN :
          LET path == IF WantsLatest
                        THEN get_latest_checkpoint_path(load_dir)
                        ELSE get_checkpoint_path(load_dir, epoch)
              resolve == IF WantsLatest
                           THEN Event("latest", [dir |-> load_dir, path |-> path])
                           ELSE Event("exact", [dir |-> load_dir, epoch |-> epoch,
                                                path |-> path])
              test == Event("exists", [path |-> path, result |-> exists])
              call == Event("before_train", <<>>)
          IN  IF exists
                THEN /\ Log(p, <<call, resolve, test, Event("load", LoadArgs(path))>>)
                     /\ pc' = [pc EXCEPT ![p] = "loading"]
                     /\ arrived' = arrived
                ELSE IF LoadBarrierGate
                       THEN /\ Log(p, <<call, resolve, test, Event("load_barrier", <<>>)>>)
                            /\ arrived' = [arrived EXCEPT ![p] = @ + 1]
                            /\ pc' = [pc EXCEPT ![p] = "load_barrier"]
                       ELSE /\ Log(p, <<call, resolve, test>>)
                            /\ arrived' = arrived
                            /\ pc' = [pc EXCEPT ![p] = "train"]
    /\ UNCHANGED <<config, cur_epoch, stored, error>>

\* mutant of lines 100-102: the load is started before the path is tested
before_train_load_unchecked(p) ==
    /\ pc[p] = "start"
    /\ \E exists \in BOOLEAN :
          LET path == IF WantsLatest
                        THEN get_latest_checkpoint_path(load_dir)
                        ELSE get_checkpoint_path(load_dir, epoch)
              resolve == IF WantsLatest
                           THEN Event("latest", [dir |-> load_dir, path |-> path])
                           ELSE Event("exact", [dir |-> load_dir, epoch |-> epoch,
                                                path |-> path])
              test == Event("exists", [path |-> path, result |-> exists])
              call == Event("before_train", <<>>)
          IN  IF exists
                THEN /\ Log(p, <<call, resolve, Event("load", LoadArgs(path)), test>>)
                     /\ pc' = [pc EXCEPT ![p] = "loading"]
                     /\ error' = error
                ELSE /\ Log(p, <<call, resolve, test>>)
                     /\ pc' = [pc EXCEPT ![p] = "failed"]
                     /\ error' = [error EXCEPT ![p] = NotFound(path)]
    /\ UNCHANGED <<config, cur_epoch, arrived, stored>>

\* mutant of lines 100-102: only the participant of rank 0 loads, as in the
\* saver
before_train_rank_gated(p) ==
    /\ pc[p] = "start"
    /\ \E exists \in BOOLEAN :
          LET path == IF WantsLatest
                        THEN get_latest_checkpoint_path(load_dir)
                        ELSE get_checkpoint_path(load_dir, epoch)
              resolve == IF WantsLatest
                           THEN Event("latest", [dir |-> load_dir, path |-> path])
                           ELSE Event("exact", [dir |-> load_dir, epoch |-> epoch,
                                                path |-> path])
              test == Event("exists", [path |-> path, result |-> exists])
              call == Event("before_train", <<>>)
          IN  IF exists
                THEN IF is_dp_rank_0(p)
                       THEN /\ Log(p, <<call, resolve, test, Event("load", LoadArgs(path))>>)
                            /\ pc' = [pc EXCEPT ![p] = "loading"]
                            /\ UNCHANGED <<arrived, error>>
                       ELSE IF LoadBarrierGate
                              THEN /\ Log(p, <<call, resolve, test,
                                               Event("load_barrier", <<>>)>>)
                                   /\ arrived' = [arrived EXCEPT ![p] = @ + 1]
                                   /\ pc' = [pc EXCEPT ![p] = "load_barrier"]
                                   /\ error' = error
                              ELSE /\ Log(p, <<call, resolve, test>>)
                                   /\ pc' = [pc EXCEPT ![p] = "train"]
                                   /\ UNCHANGED <<arrived, error>>
                ELSE /\ Log(p, <<call, resolve, test>>)
                     /\ pc' = [pc EXCEPT ![p] = "failed"]
                     /\ error' = [error EXCEPT ![p] = NotFound(path)]
                     /\ arrived' = arrived
    /\ UNCHANGED <<config, cur_epoch, stored>>

\* lines 96-106: resolve the path, test it, then start the load or raise
before_train(p) ==
    /\ pc[p] = "start"
    /\ \E exists \in BOOLEAN :
          LET path == IF WantsLatest
                        THEN get_latest_checkpoint_path(load_dir)
                        ELSE get_checkpoint_path(load_dir, epoch)
              resolve == IF WantsLatest
                           THEN Event("latest", [dir |-> load_dir, path |-> path])
                           ELSE Event("exact", [dir |-> load_dir, epoch |-> epoch,
                                                path |-> path])
              test == Event("exists", [path |-> path, result |-> exists])
              call == Event("before_train", <<>>)
          IN  IF exists
                THEN /\ Log(p, <<call, resolve, test, Event("load", LoadArgs(path))>>)
                     /\ pc' = [pc EXCEPT ![p] = "loading"]
                     /\ error' = error
                ELSE /\ Log(p, <<call, resolve, test>>)
                     /\ pc' = [pc EXCEPT ![p] = "failed"]
                     /\ error' = [error EXCEPT ![p] = NotFound(path)]
    /\ UNCHANGED <<config, cur_epoch, arrived, stored>>

\* lines 101-110: trainer.load returns, the record is logged, and the
\* barrier is entered when distributed is initialized
load_returns(p) ==
    /\ pc[p] = "loading"
    /\ LET done == <<Event("load_done", <<>>), Event("load_info", <<>>)>>
       IN  IF LoadBarrierGate
             THEN /\ Log(p, done \o <<Event("load_barrier", <<>>)>>)
                  /\ arrived' = [arrived EXCEPT ![p] = @ + 1]
                  /\ pc' = [pc EXCEPT ![p] = "load_barrier"]
             ELSE /\ Log(p, done)
                  /\ arrived' = arrived
                  /\ pc' = [pc EXCEPT ![p] = "train"]
    /\ UNCHANGED <<config, cur_epoch, stored, error>>

\* lines 101-102: trainer.load raises; before_train does not catch it
load_raises(p) ==
    /\ pc[p] = "loading"
    /\ Log(p, <<Event("load_raised", <<>>)>>)
    /\ pc' = [pc EXCEPT ![p] = "failed"]
    /\ error' = [error EXCEPT ![p] = [type |-> "LoadFailure", path |-> <<>>]]
    /\ UNCHANGED <<config, cur_epoch, arrived, stored>>

\* line 110: dist.barrier() returns
load_barrier_returns(p) ==
    /\ pc[p] = "load_barrier"
    /\ BarrierOpen(p)
    /\ pc' = [pc EXCEPT ![p] = "train"]
    /\ UNCHANGED <<config, cur_epoch, arrived, stored, error, trace>>

\* --------------------------------------- SaveCheckpointHook.after_train_epoch

\* mutant of lines 48-57: the barrier is nested under the rank test, so a
\* participant that does not write returns at once
after_train_epoch_nested_barrier(p) ==
    /\ pc[p] = "train"
    /\ LET call == Event("after_train_epoch", cur_epoch[p])
       IN  IF SavePoint(p) /\ WriterGate(p)
             THEN /\ Log(p, <<call, Event("save", SaveArgs(p))>>)
                  /\ pc' = [pc EXCEPT ![p] = "saving"]
                  /\ UNCHANGED <<arrived, cur_epoch>>
             ELSE /\ Log(p, <<call>>)
                  /\ hook_returns(p)
                  /\ UNCHANGED arrived
    /\ UNCHANGED <<config, stored, error>>

\* mutant of lines 48-57: the barrier is outside the interval test, so it is
\* entered after every epoch
after_train_epoch_barrier_every_epoch(p) ==
    /\ pc[p] = "train"
    /\ LET call == Event("after_train_epoch", cur_epoch[p])
       IN  IF SavePoint(p) /\ WriterGate(p)
             THEN /\ Log(p, <<call, Event("save", SaveArgs(p))>>)
                  /\ pc' = [pc EXCEPT ![p] = "saving"]
                  /\ UNCHANGED <<arrived, cur_epoch>>
             ELSE IF SaveBarrierGate
                    THEN /\ Log(p, <<call, Event("save_barrier", cur_epoch[p])>>)
                         /\ arrived' = [arrived EXCEPT ![p] = @ + 1]
                         /\ pc' = [pc EXCEPT ![p] = "save_barrier"]
                         /\ UNCHANGED cur_epoch
                    ELSE /\ Log(p, <<call>>)
                         /\ hook_returns(p)
                         /\ UNCHANGED arrived
    /\ UNCHANGED <<config, stored, error>>

\* lines 48-57, up to the first call that blocks
after_train_epoch(p) ==
    /\ pc[p] = "train"
    /\ LET call == Event("after_train_epoch", cur_epoch[p])
       IN  IF SavePoint(p)
             THEN IF WriterGate(p)
                    THEN /\ Log(p, <<call, Event("save", SaveArgs(p))>>)
                         /\ pc' = [pc EXCEPT ![p] = "saving"]
                         /\ UNCHANGED <<arrived, cur_epoch>>
                    ELSE IF SaveBarrierGate
                           THEN /\ Log(p, <<call, Event("save_barrier", cur_epoch[p])>>)
                                /\ arrived' = [arrived EXCEPT ![p] = @ + 1]
                                /\ pc' = [pc EXCEPT ![p] = "save_barrier"]
                                /\ UNCHANGED cur_epoch
                           ELSE /\ Log(p, <<call>>)
                                /\ hook_returns(p)
                                /\ UNCHANGED arrived
             ELSE /\ Log(p, <<call>>)
                  /\ hook_returns(p)
                  /\ UNCHANGED arrived
    /\ UNCHANGED <<config, stored, error>>

\* mutant of lines 51-57: the writer returns without entering the barrier
save_returns_no_barrier(p) ==
    /\ pc[p] = "saving"
    /\ stored' = stored \cup {SaveArgs(p)}
    /\ Log(p, <<Event("save_done", cur_epoch[p]), Event("save_info", cur_epoch[p])>>)
    /\ arrived' = arrived
    /\ hook_returns(p)
    /\ UNCHANGED <<config, error>>

\* lines 51-57: trainer.save returns, the record is logged, and the barrier
\* is entered when distributed is initialized
save_returns(p) ==
    /\ pc[p] = "saving"
    /\ stored' = stored \cup {SaveArgs(p)}
    /\ LET done == <<Event("save_done", cur_epoch[p]), Event("save_info", cur_epoch[p])>>
       IN  IF SaveBarrierGate
             THEN /\ Log(p, done \o <<Event("save_barrier", cur_epoch[p])>>)
                  /\ arrived' = [arrived EXCEPT ![p] = @ + 1]
                  /\ pc' = [pc EXCEPT ![p] = "save_barrier"]
                  /\ UNCHANGED cur_epoch
             ELSE /\ Log(p, done)
                  /\ arrived' = arrived
                  /\ hook_returns(p)
    /\ UNCHANGED <<config, error>>

\* mutant of line 51: a failed save is caught and tried once more
save_raises_retry(p) ==
    /\ pc[p] = "saving"
    /\ IF Cardinality({i \in 1 .. Len(trace[p]) : trace[p][i].op = "save_raised"}) = 0
         THEN /\ Log(p, <<Event("save_raised", cur_epoch[p]), Event("save", SaveArgs(p))>>)
              /\ UNCHANGED <<pc, error>>
         ELSE /\ Log(p, <<Event("save_raised", cur_epoch[p])>>)
              /\ pc' = [pc EXCEPT ![p] = "failed"]
              /\ error' = [error EXCEPT ![p] = [type |-> "SaveFailure", path |-> <<>>]]
    /\ UNCHANGED <<config, cur_epoch, arrived, stored>>

\* mutant of line 51: the barrier is entered in a finally clause
save_raises_finally_barrier(p) ==
    /\ pc[p] = "saving"
    /\ IF SaveBarrierGate
         THEN /\ Log(p, <<Event("save_raised", cur_epoch[p]),
                          Event("save_barrier", cur_epoch[p])>>)
              /\ arrived' = [arrived EXCEPT ![p] = @ + 1]
         ELSE /\ Log(p, <<Event("save_raised", cur_epoch[p])>>)
              /\ arrived' = arrived
    /\ pc' = [pc EXCEPT ![p] = "failed"]
    /\ error' = [error EXCEPT ![p] = [type |-> "SaveFailure", path |-> <<>>]]
    /\ UNCHANGED <<config, cur_epoch, stored>>

\* line 51: trainer.save raises; after_train_epoch does not catch it
save_raises(p) ==
    /\ pc[p] = "saving"
    /\ Log(p, <<Event("save_raised", cur_epoch[p])>>)
    /\ pc' = [pc EXCEPT ![p] = "failed"]
    /\ error' = [error EXCEPT ![p] = [type |-> "SaveFailure", path |-> <<>>]]
    /\ UNCHANGED <<config, cur_epoch, arrived, stored>>

\* mutant of line 57: the wait gives up after a timeout and the hook returns
save_barrier_returns_timeout(p) ==
    /\ pc[p] = "save_barrier"
    /\ hook_returns(p)
    /\ UNCHANGED <<config, arrived, stored, error, trace>>

\* line 57: dist.barrier() returns, and so does the hook
save_barrier_returns(p) ==
    /\ pc[p] = "save_barrier"
    /\ BarrierOpen(p)
    /\ hook_returns(p)
    /\ UNCHANGED <<config, arrived, stored, error, trace>>

\* the steps of participant p
Step(p) ==
    \/ before_train(p)
    \/ load_returns(p)
    \/ load_raises(p)
    \/ load_barrier_returns(p)
    \/ after_train_epoch(p)
    \/ save_returns(p)
    \/ save_raises(p)
    \/ save_barrier_returns(p)

Next == \E p \in Procs : Step(p)

Spec == Init /\ [][Next]_vars

\* the steps of participant p when neither trainer.load nor trainer.save raises
StepNoFail(p) ==
    \/ before_train(p)
    \/ load_returns(p)
    \/ load_barrier_returns(p)
    \/ after_train_epoch(p)
    \/ save_returns(p)
    \/ save_barrier_returns(p)

NextNoFail == \E p \in Procs : StepNoFail(p)

\* every participant is a running process: a step it can take is taken
SpecFair ==
    /\ Init
    /\ [][NextNoFail]_vars
    /\ \A p \in Procs : WF_vars(StepNoFail(p))

\* ------------------------------------------------------- reading the traces

Idx(p) == 1 .. Len(trace[p])

Ops(p, op) == {i \in Idx(p) : trace[p][i].op = op}

Epochs == 0 .. MaxEpoch

\* after_train_epoch was called by p with cur_epoch = E
Called(p, E) == \E i \in Ops(p, "after_train_epoch") : trace[p][i].at = E

\* calls of the save primitive made by p with cur_epoch = E
Saves(p, E) == {i \in Ops(p, "save") : trace[p][i].at.epoch = E}

\* entries of p into the post-save barrier with cur_epoch = E
SaveBarriers(p, E) == {i \in Ops(p, "save_barrier") : trace[p][i].at = E}

Primaries == {p \in Procs : dp_rank[p] = 0}

\* the path the resolver returned to p's before_train
Resolved(p) == {trace[p][i].at.path : i \in Ops(p, "latest") \cup Ops(p, "exact")}

\* ------------------------------------------------------------------ claims

\* C1: on a primary participant, a call of after_train_epoch with epoch
\* counter E invokes the save primitive if and only if E mod interval = 0.
C1_SaveIffMultiple ==
    \A p \in Primaries : \A E \in Epochs :
        Called(p, E) => ((Saves(p, E) # {}) <=> (E % interval = 0))

C1_Witness ==
    /\ interval = 2
    /\ \E p \in Primaries :
        /\ Called(p, 0) /\ Called(p, 1) /\ Called(p, 2)
        /\ Saves(p, 0) # {} /\ Saves(p, 1) = {} /\ Saves(p, 2) # {}

\* C2: only a participant of data-parallel rank 0 invokes the save primitive,
\* and only at a save point; with exactly one such participant there is at
\* most one write per save point, exactly one once the primary has made its
\* call, and never two writes in progress at once.
C2_OnlyPrimaryWrites ==
    /\ \A p \in Procs : \A E \in Epochs :
          Saves(p, E) # {} => (dp_rank[p] = 0 /\ E % interval = 0)
    /\ Cardinality(Primaries) = 1 =>
          /\ \A E \in Epochs :
                /\ \A p, q \in Procs :
                      (Saves(p, E) # {} /\ Saves(q, E) # {}) => p = q
                /\ \A p \in Procs : Cardinality(Saves(p, E)) <= 1
                /\ \A p \in Primaries :
                      (Called(p, E) /\ E % interval = 0)
                          => Cardinality(Saves(p, E)) = 1
          /\ Cardinality({p \in Procs : pc[p] = "saving"}) <= 1

C2_Witness ==
    /\ Cardinality(Primaries) = 1
    /\ \E p, q \in Procs :
        /\ dp_rank[p] = 0 /\ dp_rank[q] # 0
        /\ Saves(p, 0) # {}
        /\ Called(q, 0) /\ Saves(q, 0) = {}

\* C3: with distributed initialized, once any participant is past the save
\* point of epoch E (its epoch counter is above E), every participant has
\* entered the post-save barrier of epoch E.
C3_NoOvertaking ==
    dist_initialized =>
        \A p \in Procs : \A E \in Epochs :
            (E % interval = 0 /\ cur_epoch[p] > E)
                => \A q \in Procs : SaveBarriers(q, E) # {}

C3_Witness ==
    /\ dist_initialized
    /\ \E p, q \in Procs :
        /\ p # q
        /\ pc[p] = "train" /\ cur_epoch[p] = 1
        /\ pc[q] = "save_barrier" /\ cur_epoch[q] = 0

\* C4: with distributed initialized, while a participant's save primitive is
\* still running at epoch E no participant has left the barrier of that save
\* point (none has an epoch counter above E).
C4_WriteBeforeRelease ==
    dist_initialized =>
        \A p, q \in Procs :
            pc[p] = "saving" => cur_epoch[q] <= cur_epoch[p]

C4_Witness ==
    /\ dist_initialized
    /\ \E p, q \in Procs :
        /\ pc[p] = "saving" /\ cur_epoch[p] = 1
        /\ pc[q] = "save_barrier" /\ cur_epoch[q] = 1

\* C5: a before_train call makes exactly one resolver query: the "latest"
\* query when the configured epoch is -1, and otherwise the exact-epoch
\* query with the configured directory and epoch.
C5_ResolverChoice ==
    \A p \in Procs :
        pc[p] # "start" =>
            IF epoch = -1
              THEN /\ Cardinality(Ops(p, "latest")) = 1
                   /\ Ops(p, "exact") = {}
                   /\ \A i \in Ops(p, "latest") : trace[p][i].at.dir = load_dir
              ELSE /\ Cardinality(Ops(p, "exact")) = 1
                   /\ Ops(p, "latest") = {}
                   /\ \A i \in Ops(p, "exact") :
                         /\ trace[p][i].at.dir = load_dir
                         /\ trace[p][i].at.epoch = epoch

C5_Witness ==
    \E p, q \in Procs :
        /\ epoch = -2
        /\ Ops(p, "exact") # {} /\ Ops(q, "exact") # {} /\ p # q

\* C6: when the resolved path does not exist, before_train ends with a
\* FileNotFoundError naming the resolved path, and never calls the load
\* primitive.
C6_MissingRaises ==
    \A p \in Procs :
        (\E i \in Ops(p, "exists") : ~trace[p][i].at.result) =>
            /\ pc[p] = "failed"
            /\ error[p].type = "FileNotFoundError"
            /\ Resolved(p) = {error[p].path}
            /\ Ops(p, "load") = {}

C6_Witness ==
    \E p \in Procs :
        /\ epoch = -1 /\ latest_epoch = 0
        /\ \E i \in Ops(p, "exists") : ~trace[p][i].at.result
        /\ error[p].type = "FileNotFoundError"

\* C7: when the resolved path exists, before_train calls the load primitive
\* exactly once, with the resolved path and the constructor's finetune and
\* strict flags.
C7_LoadOnce ==
    \A p \in Procs :
        (\E i \in Ops(p, "exists") : trace[p][i].at.result) =>
            /\ Cardinality(Ops(p, "load")) = 1
            /\ \A i \in Ops(p, "load") :
                  /\ Resolved(p) = {trace[p][i].at.path}
                  /\ trace[p][i].at.finetune = finetune
                  /\ trace[p][i].at.strict = strict

C7_Witness ==
    \E p \in Procs :
        /\ finetune /\ ~strict
        /\ epoch = -1 /\ latest_epoch = 0
        /\ Ops(p, "load") # {}
        /\ Ops(p, "load_done") # {}

\* C8: with distributed initialized, a participant that has returned from
\* before_train is training only when every participant has finished its
\* load.
C8_NoTrainingWhileLoading ==
    dist_initialized =>
        \A p \in Procs :
            pc[p] \in {"train", "saving", "save_barrier", "done"}
                => \A q \in Procs : Ops(q, "load_done") # {}

C8_Witness ==
    /\ dist_initialized
    /\ \E p, q \in Procs :
        /\ p # q
        /\ pc[p] = "train" /\ cur_epoch[p] = 0
        /\ pc[q] = "load_barrier"

\* C9 as stated: at a save point with distributed initialized, every
\* participant whose after_train_epoch call is past the save primitive has
\* entered the post-save barrier exactly once, and a non-primary one has made
\* no write call.
C9_Original ==
    dist_initialized =>
        \A p \in Procs : \A E \in Epochs :
            (Called(p, E) /\ E % interval = 0
                    /\ ~(pc[p] = "saving" /\ cur_epoch[p] = E)) =>
                /\ Cardinality(SaveBarriers(p, E)) = 1
                /\ dp_rank[p] # 0 => Saves(p, E) = {}

\* C9 amended: the same for every participant whose save primitive did not
\* raise; a primary whose save primitive raised has not entered the barrier.
C9_BarrierUnlessSaveRaised ==
    dist_initialized =>
        \A p \in Procs : \A E \in Epochs :
            (Called(p, E) /\ E % interval = 0
                    /\ ~(pc[p] = "saving" /\ cur_epoch[p] = E)) =>
                IF error[p].type = "SaveFailure" /\ cur_epoch[p] = E
                  THEN SaveBarriers(p, E) = {}
                  ELSE /\ Cardinality(SaveBarriers(p, E)) = 1
                       /\ dp_rank[p] # 0 => Saves(p, E) = {}

C9_Witness ==
    /\ dist_initialized
    /\ \E p, q \in Procs :
        /\ dp_rank[p] # 0 /\ Called(p, 0) /\ Saves(p, 0) = {}
        /\ Cardinality(SaveBarriers(p, 0)) = 1
        /\ dp_rank[q] = 0 /\ error[q].type = "SaveFailure" /\ cur_epoch[q] = 0

\* C10: a step in which a participant calls after_train_epoch with
\* cur_epoch mod interval # 0 returns at once: no save call, no barrier
\* entry, and the stored checkpoints and the barrier state stay as they were.
C10_NotSavePointNoEffect ==
    [][\A p \in Procs :
          (pc[p] = "train" /\ cur_epoch[p] % interval # 0 /\ trace'[p] # trace[p]) =>
              /\ trace'[p] = Append(trace[p], Event("after_train_epoch", cur_epoch[p]))
              /\ pc'[p] \in {"train", "done"}
              /\ cur_epoch'[p] = cur_epoch[p] + 1
              /\ arrived' = arrived
              /\ stored' = stored
              /\ error' = error]_vars

C10_Witness ==
    /\ interval = 2
    /\ dist_initialized
    /\ \E p \in Procs :
        /\ Called(p, 1) /\ cur_epoch[p] = 2 /\ pc[p] = "train"
        /\ Saves(p, 1) = {} /\ SaveBarriers(p, 1) = {}

\* p's before_train found the resolved path missing
MissingSeen(p) == \E i \in Ops(p, "exists") : ~trace[p][i].at.result

\* C11: a participant whose before_train found the resolved path missing is
\* stopped there: it never loads, never runs an epoch and never calls
\* after_train_epoch.
C11_MissingAborts ==
    \A p \in Procs :
        MissingSeen(p) =>
            /\ pc[p] = "failed"
            /\ cur_epoch[p] = 0
            /\ Ops(p, "after_train_epoch") = {}
            /\ Ops(p, "load_done") = {}

C11_Witness ==
    \E p, q \in Procs :
        /\ MissingSeen(p) /\ pc[p] = "failed"
        /\ p # q /\ pc[q] = "done"

\* C12: after_train_epoch calls the save primitive at most once per call, and
\* when the save primitive raises, that is the last thing the participant
\* does: the exception leaves the hook and the participant.
C12_SaveFailurePropagates ==
    \A p \in Procs :
        /\ \A i, j \in Ops(p, "save") :
              trace[p][i].at.epoch = trace[p][j].at.epoch => i = j
        /\ \A i \in Ops(p, "save_raised") :
              /\ i = Len(trace[p])
              /\ pc[p] = "failed"
              /\ error[p].type = "SaveFailure"
              /\ cur_epoch[p] = trace[p][i].at

C12_Witness ==
    \E p \in Procs :
        /\ Ops(p, "save_raised") # {}
        /\ cur_epoch[p] = 1
        /\ Cardinality(Saves(p, 1)) = 1

\* some event of p in the set I comes before its event at index j
Preceded(I, j) == \E i \in I : i < j

SaveDones(p, E) == {i \in Ops(p, "save_done") : trace[p][i].at = E}

Resolves(p) == Ops(p, "latest") \cup Ops(p, "exact")

\* C13: in every participant's trace, the save call of an epoch comes before
\* its return, and on a writer the return comes before the entry into that
\* epoch's barrier; the resolver query comes before the existence test, the
\* test before the load call, the load call before its return, and the return
\* before the entry into the post-load barrier.
C13_StepOrder ==
    \A p \in Procs :
        LET t == trace[p]
            saves == Ops(p, "save")
            dones == Ops(p, "save_done")
            tests == Ops(p, "exists")
            loads == Ops(p, "load")
            loaded == Ops(p, "load_done")
        IN  /\ \A d \in dones :
                  Preceded({s \in saves : t[s].at.epoch = t[d].at}, d)
            /\ \A b \in Ops(p, "save_barrier") :
                  /\ dp_rank[p] = 0 =>
                        Preceded({d \in dones : t[d].at = t[b].at}, b)
                  /\ \A s \in saves : t[s].at.epoch = t[b].at => s < b
            /\ \A x \in tests : Preceded(Resolves(p), x)
            /\ \A l \in loads : Preceded(tests, l)
            /\ \A d \in loaded : Preceded(loads, d)
            /\ \A b \in Ops(p, "load_barrier") : Preceded(loaded, b)

C13_Witness ==
    /\ dist_initialized
    /\ \E p \in Primaries :
        /\ Ops(p, "load_barrier") # {}
        /\ SaveBarriers(p, 0) # {}
        /\ SaveDones(p, 0) # {}

\* C14: every participant that found its resolved path present has called
\* the load primitive itself, whatever its data-parallel rank.
C14_EveryoneLoads ==
    \A p \in Procs :
        (\E i \in Ops(p, "exists") : trace[p][i].at.result) => Ops(p, "load") # {}

C14_Witness ==
    \E p, q \in Procs :
        /\ dp_rank[p] = 0 /\ dp_rank[q] # 0
        /\ Ops(p, "load_done") # {}
        /\ Ops(q, "load_done") # {}

InBarrier(p) == pc[p] \in {"load_barrier", "save_barrier"}

\* p waits in a barrier that a failed participant will never enter
StuckBehind(p, q) == InBarrier(p) /\ pc[q] = "failed" /\ arrived[q] < arrived[p]

\* C15: a participant inside a barrier does not move in any step taken while
\* some participant has not made the matching barrier call, and one that
\* waits for a failed participant is still waiting for it after every step.
C15_NoTimeout ==
    [][\A p \in Procs :
          /\ (InBarrier(p) /\ \E q \in Procs : arrived[q] < arrived[p]) =>
                (pc'[p] = pc[p] /\ cur_epoch'[p] = cur_epoch[p])
          /\ \A q \in Procs : StuckBehind(p, q) => StuckBehind(p, q)']_vars

C15_Witness ==
    \E p, q \in Procs :
        /\ pc[p] = "save_barrier" /\ cur_epoch[p] = 1
        /\ StuckBehind(p, q) /\ error[q].type = "SaveFailure"

\* C16: without distributed initialized no participant ever calls or waits in
\* a barrier, and every participant that is neither finished nor failed can
\* take its next step whatever the others do.
C16_NoBarrierWithoutDist ==
    ~dist_initialized =>
        \A p \in Procs :
            /\ arrived[p] = 0
            /\ ~InBarrier(p)
            /\ Ops(p, "load_barrier") = {}
            /\ Ops(p, "save_barrier") = {}
            /\ pc[p] \notin {"done", "failed"} => ENABLED Step(p)

C16_Witness ==
    /\ ~dist_initialized
    /\ \E p, q \in Procs :
        /\ pc[p] = "done" /\ SaveDones(p, 0) # {}
        /\ pc[q] = "start"

\* p is inside a hook: in a primitive the hook called, or in its barrier
InHook(p) == pc[p] \in {"loading", "load_barrier", "saving", "save_barrier"}

SomeMissing == \E q \in Procs : error[q].type = "FileNotFoundError"

\* C17 as stated: when no load or save primitive raises and every participant
\* is scheduled fairly, a participant inside a hook eventually leaves it.
C17_Original == \A p \in Procs : InHook(p) ~> ~InHook(p)

\* C17 amended: the same, unless some participant found its resolved path
\* missing.
C17_ReturnsUnlessMissing ==
    \A p \in Procs : InHook(p) ~> (~InHook(p) \/ SomeMissing)

C17_Witness ==
    /\ dist_initialized
    /\ interval = 1
    /\ \A p \in Procs : pc[p] = "done" /\ arrived[p] = MaxEpoch + 2

IsBarrierCall(e) == e.op \in {"load_barrier", "save_barrier"}

\* the barrier calls of p, in the order it made them
BarrierCalls(p) == SelectSeq(trace[p], IsBarrierCall)

\* the save points among the epochs whose after_train_epoch call p has
\* finished, or in whose barrier p is waiting
SavePointsReached(p) ==
    {E \in Epochs : /\ E % interval = 0
                    /\ \/ E < cur_epoch[p]
                       \/ E = cur_epoch[p] /\ pc[p] = "save_barrier"}

\* C18: with distributed initialized, every participant has entered the save
\* barrier once per save point it has reached, so participants that completed
\* the same epochs entered it equally often; and the k-th barrier calls of
\* any two participants are the same call: both after the load, or both
\* after the same epoch E with E mod interval = 0.
C18_BarrierMatching ==
    dist_initialized =>
        /\ \A p \in Procs :
              /\ Cardinality(Ops(p, "save_barrier")) = Cardinality(SavePointsReached(p))
              /\ Len(BarrierCalls(p)) = arrived[p]
        /\ \A p, q \in Procs :
              /\ (cur_epoch[p] = cur_epoch[q] /\ pc[p] = pc[q])
                    => Cardinality(Ops(p, "save_barrier"))
                         = Cardinality(Ops(q, "save_barrier"))
              /\ \A k \in 1 .. Len(BarrierCalls(p)) :
                    k <= Len(BarrierCalls(q)) =>
                        LET a == BarrierCalls(p)[k]
                            b == BarrierCalls(q)[k]
                        IN  /\ a.op = b.op
                            /\ a.op = "save_barrier" =>
                                  (a.at = b.at /\ a.at % interval = 0)

C18_Witness ==
    /\ dist_initialized
    /\ interval = 2
    /\ \A p \in Procs :
        /\ pc[p] = "done"
        /\ Cardinality(Ops(p, "save_barrier")) = 2
        /\ Len(BarrierCalls(p)) = 3

\* C19: a participant whose hook raised has not entered the barrier of that
\* call: after a failed save it has no barrier entry for its current epoch,
\* and after a missing path or a failed load it has no barrier entry at all.
C19_FailureSkipsBarrier ==
    \A p \in Procs :
        pc[p] = "failed" =>
            /\ ~InBarrier(p)
            /\ Len(BarrierCalls(p)) = arrived[p]
            /\ IF error[p].type = "SaveFailure"
                 THEN /\ SaveBarriers(p, cur_epoch[p]) = {}
                      /\ Saves(p, cur_epoch[p]) # {}
                 ELSE /\ error[p].type \in {"FileNotFoundError", "LoadFailure"}
                      /\ arrived[p] = 0
                      /\ Ops(p, "load_barrier") = {}

C19_Witness ==
    /\ dist_initialized
    /\ \E p \in Procs :
        /\ pc[p] = "failed" /\ error[p].type = "SaveFailure"
        /\ cur_epoch[p] = 1 /\ arrived[p] = 2

====
